---- MODULE Spec2Model ----
(***************************************************************************)
(* Model of app.py: the workouts table behind the four Flask routes, the   *)
(* request-scoped SQLite connection, and the JSON conversions the handlers *)
(* apply on the way in (request.get_json, json.dumps) and on the way out   *)
(* (json.loads, the dict merge).                                           *)
(*                                                                         *)
(* Strings are sequences of code points, so ORDER BY date_text compares    *)
(* them the way SQLite's BINARY collation does.  JSON text is a sequence   *)
(* of tokens; a JSON value is [t |-> kind, v |-> payload] with v a         *)
(* sequence of naturals (code points, the number, or an array's numbers);  *)
(* a Python dict is a sequence of [k, v] pairs in insertion order.         *)
(***************************************************************************)
EXTENDS Integers, Sequences, FiniteSets, TLC

\* ---------------------------------------------------------------- bounds
\* ids the AUTOINCREMENT sequence may hand out before saves stop, per scope
MaxId == 2
MaxIdOrder == 4
MaxIdConc == 2
\* application contexts (requests, start-up) in flight at once in the
\* concurrency scope
NumReq == 2

\* --------------------------------------------------------------- strings
\* 'id', 'date' (app.py:89-90,106) and a client-defined key
K_id == <<105, 100>>
K_date == <<100, 97, 116, 101>>
K_exercises == <<101, 120>>

\* the dates of the ordering scenario: "2024-01-02", "2024-01-10",
\* "2024-01-01", "2024-1-9"
D_0102 == <<50, 48, 50, 52, 45, 48, 49, 45, 48, 50>>
D_0110 == <<50, 48, 50, 52, 45, 48, 49, 45, 49, 48>>
D_0101 == <<50, 48, 50, 52, 45, 48, 49, 45, 48, 49>>
D_19 == <<50, 48, 50, 52, 45, 49, 45, 57>>
EmptyStr == <<>>

RECURSIVE StrLess(_, _)
\* memcmp order of two strings: a < b
StrLess(a, b) ==
  IF b = <<>> THEN FALSE
  ELSE IF a = <<>> THEN TRUE
  ELSE IF Head(a) # Head(b) THEN Head(a) < Head(b)
  ELSE StrLess(Tail(a), Tail(b))

RECURSIVE IntToText(_)
\* decimal text of a non-negative integer (what TEXT affinity stores)
IntToText(n) ==
  IF n < 10 THEN <<48 + n>>
  ELSE Append(IntToText(n \div 10), 48 + (n % 10))

\* ----------------------------------------------------------- JSON values
Str(s) == [t |-> "str", v |-> s]
Num(n) == [t |-> "num", v |-> <<n>>]
Null == [t |-> "null", v |-> <<>>]
Arr(ns) == [t |-> "arr", v |-> ns]
Pair(k, val) == [k |-> k, v |-> val]

DictHas(d, k) == \E i \in 1..Len(d) : d[i].k = k
DictIndex(d, k) == CHOOSE i \in 1..Len(d) : d[i].k = k
\* dict.get(k, default)
DictGet(d, k, default) == IF DictHas(d, k) THEN d[DictIndex(d, k)].v ELSE default
\* d[k] = val: replaces in place, else appends
DictSet(d, k, val) ==
  IF DictHas(d, k) THEN [d EXCEPT ![DictIndex(d, k)].v = val]
  ELSE Append(d, Pair(k, val))
DictKeys(d) == {d[i].k : i \in 1..Len(d)}

RECURSIVE DictUpdate(_, _)
\* {**base, **src}
DictUpdate(base, src) ==
  IF src = <<>> THEN base
  ELSE DictUpdate(DictSet(base, Head(src).k, Head(src).v), Tail(src))

\* ------------------------------------------------------------- JSON text
Tok(k, v) == [k |-> k, v |-> v]
Punct(k) == Tok(k, <<>>)

RECURSIVE DumpsElems(_)
DumpsElems(ns) ==
  IF ns = <<>> THEN <<>>
  ELSE IF Len(ns) = 1 THEN <<Tok("num", <<ns[1]>>)>>
  ELSE <<Tok("num", <<ns[1]>>), Punct(",")>> \o DumpsElems(Tail(ns))

DumpsValue(val) ==
  IF val.t = "arr" THEN <<Punct("[")>> \o DumpsElems(val.v) \o <<Punct("]")>>
  ELSE <<Tok(val.t, val.v)>>

RECURSIVE DumpsMembers(_)
DumpsMembers(d) ==
  IF d = <<>> THEN <<>>
  ELSE LET m == <<Tok("str", Head(d).k), Punct(":")>> \o DumpsValue(Head(d).v)
       IN IF Len(d) = 1 THEN m ELSE m \o <<Punct(",")>> \o DumpsMembers(Tail(d))

\* the text of a dict
DumpsDict(d) == <<Punct("{")>> \o DumpsMembers(d) \o <<Punct("}")>>

NoValue == [ok |-> FALSE, val |-> Null, next |-> 0]
NoDict == [ok |-> FALSE, d |-> <<>>, next |-> 0]

RECURSIVE ParseElems(_, _, _)
\* the elements of an array, from position i (after "[" or ",")
ParseElems(text, i, acc) ==
  IF i > Len(text) THEN NoValue
  ELSE IF text[i].k = "]" /\ acc = <<>> THEN [ok |-> TRUE, val |-> Arr(acc), next |-> i + 1]
  ELSE IF text[i].k = "num" /\ i + 1 <= Len(text) THEN
    LET acc2 == Append(acc, text[i].v[1]) IN
    IF text[i + 1].k = "]" THEN [ok |-> TRUE, val |-> Arr(acc2), next |-> i + 2]
    ELSE IF text[i + 1].k = "," THEN ParseElems(text, i + 2, acc2)
    ELSE NoValue
  ELSE NoValue

\* a member value: a scalar or an array of numbers
ParseValue(text, i) ==
  IF i > Len(text) THEN NoValue
  ELSE IF text[i].k \in {"str", "num", "null"}
    THEN [ok |-> TRUE, val |-> [t |-> text[i].k, v |-> text[i].v], next |-> i + 1]
  ELSE IF text[i].k = "[" THEN ParseElems(text, i + 1, <<>>)
  ELSE NoValue

RECURSIVE ParseMembers(_, _, _)
\* the members of an object, from position i (after "{" or ","); a repeated
\* key keeps its first position and takes the last value
ParseMembers(text, i, d) ==
  IF i > Len(text) THEN NoDict
  ELSE IF text[i].k = "}" /\ d = <<>> THEN [ok |-> TRUE, d |-> d, next |-> i + 1]
  ELSE IF text[i].k = "str" /\ i + 1 <= Len(text) /\ text[i + 1].k = ":" THEN
    LET pv == ParseValue(text, i + 2) IN
    IF ~pv.ok \/ pv.next > Len(text) THEN NoDict
    ELSE LET d2 == DictSet(d, text[i].v, pv.val) IN
      IF text[pv.next].k = "}" THEN [ok |-> TRUE, d |-> d2, next |-> pv.next + 1]
      ELSE IF text[pv.next].k = "," /\ pv.next + 1 <= Len(text) /\ text[pv.next + 1].k # "}"
        THEN ParseMembers(text, pv.next + 1, d2)
      ELSE NoDict
  ELSE NoDict

NotJson == [ok |-> FALSE, t |-> "none", v |-> <<>>, d |-> <<>>]

\* json.loads / request.get_json: ok is FALSE when the text is not JSON; t is
\* the kind of the top-level value, d its members when it is an object and v
\* its payload otherwise
Loads(text) ==
  IF text = <<>> THEN NotJson
  ELSE IF text[1].k = "{" THEN
    LET r == ParseMembers(text, 2, <<>>) IN
    IF r.ok /\ r.next = Len(text) + 1 THEN [ok |-> TRUE, t |-> "obj", v |-> <<>>, d |-> r.d]
    ELSE NotJson
  ELSE
    LET r == ParseValue(text, 1) IN
    IF r.ok /\ r.next = Len(text) + 1 THEN [ok |-> TRUE, t |-> r.val.t, v |-> r.val.v, d |-> <<>>]
    ELSE NotJson

\* json.dumps of a parsed value
Dumps(wd) ==
  IF wd.t = "obj" THEN DumpsDict(wd.d) ELSE DumpsValue([t |-> wd.t, v |-> wd.v])

\* -------------------------------------------------------- request bodies
\* what a client may POST to /api/save_workout
B_plain == DumpsDict(<<Pair(K_date, Str(D_0110)), Pair(K_exercises, Arr(<<3>>))>>)
B_id == DumpsDict(<<Pair(K_id, Num(2)), Pair(K_date, Str(D_0102))>>)
B_nodate == DumpsDict(<<Pair(K_exercises, Arr(<<3, 5>>))>>)
B_numdate == DumpsDict(<<Pair(K_date, Num(10))>>)
B_nulldate == DumpsDict(<<Pair(K_date, Null)>>)
B_arrdate == DumpsDict(<<Pair(K_date, Arr(<<3>>))>>)
B_array == <<Punct("["), Tok("num", <<3>>), Punct("]")>>
B_string == <<Tok("str", D_0101)>>
B_null == <<Tok("null", <<>>)>>
B_truncated == <<Punct("{"), Tok("str", K_date), Punct(":")>>
B_trailing == <<Punct("{"), Tok("str", K_date), Punct(":"), Tok("str", D_0101), Punct(","), Punct("}")>>
B_empty == <<>>
B_d0102 == DumpsDict(<<Pair(K_date, Str(D_0102))>>)
B_d0110 == DumpsDict(<<Pair(K_date, Str(D_0110))>>)
B_d0101 == DumpsDict(<<Pair(K_date, Str(D_0101))>>)
B_d19 == DumpsDict(<<Pair(K_date, Str(D_19))>>)

MalformedBodies == {B_truncated, B_trailing, B_empty}
NonObjectBodies == {B_array, B_string, B_null}

Bodies(sc) ==
  IF sc = "order" THEN {B_d0102, B_d0110, B_d0101, B_d19, B_null}
  ELSE IF sc = "conc" THEN {B_plain, B_nulldate, B_null}
  ELSE {B_plain, B_id, B_nodate, B_numdate, B_nulldate, B_arrdate}
         \cup MalformedBodies \cup NonObjectBodies

MaxIdOf(sc) ==
  IF sc = "order" THEN MaxIdOrder ELSE IF sc = "conc" THEN MaxIdConc ELSE MaxId

\* the largest integer SQLite binds (2^63 - 1), scaled to sit just above the
\* ids the model's sequence hands out
SqliteIntMax(sc) == MaxIdOf(sc) + 1
\* <int:workout_id> matches any run of digits
PathIds(sc) == 0..(SqliteIntMax(sc) + 1)

\* ------------------------------------------------------------------ state
VARIABLES
  scope,    \* which inputs the behaviour draws from; never changes
  schema,   \* the workouts table exists
  rows,     \* committed rows: id -> [date_text, workout_json, body]
  seq,      \* sqlite_sequence: the largest id AUTOINCREMENT has handed out
  lock,     \* the context whose connection holds the write lock, or 0
  conns,    \* open connections, <<context, ordinal>>
  g_db,     \* g._sqlite_database per context: an ordinal, or 0 for None
  op,       \* what each context is running
  pc,       \* "idle", "commit" (statement run, commit pending) or "done"
  txn,      \* the uncommitted write of each context's connection
  resp,     \* the response, once the handler has returned or raised
  issued    \* history: the ids save_workout has returned, in order

vars == <<scope, schema, rows, seq, lock, conns, g_db, op, pc, txn, resp, issued>>

Reqs == 1..NumReq \cup {1, 2}
\* the contexts a scope runs: one request at a time for the order of a
\* listing, two with the full set of inputs, NumReq with few inputs
Active ==
  IF scope = "order" THEN {1} ELSE IF scope = "conc" THEN 1..NumReq ELSE {1, 2}

NoTxn == [k |-> "none", id |-> 0, date_text |-> <<>>, workout_json |-> <<>>, body |-> <<>>]
NoResp == [status |-> "none", error |-> "", id |-> 0, list |-> <<>>]
\* a 200 response: {"success": true, "id": id}, {"success": true} or the list
Ok(id, list) == [status |-> "ok", error |-> "", id |-> id, list |-> list]
\* the handler raised: a non-2xx response
Failed(error) == [status |-> "fail", error |-> error, id |-> 0, list |-> <<>>]
EmptyRows == [i \in {} |-> 0]

RowsPut(rs, id, row) == [i \in DOMAIN rs \cup {id} |-> IF i = id THEN row ELSE rs[i]]
RowsDel(rs, id) == [i \in DOMAIN rs \ {id} |-> rs[i]]

\* ------------------------------------------------------ connection manager
\* get_sqlite_db: the handle in g, opening one when g has none
GetSqliteDb(r) ==
  IF g_db[r] = 0
  THEN LET n == Cardinality({c \in conns : c[1] = r}) + 1
       IN [handle |-> n, conns |-> conns \cup {<<r, n>>}]
  ELSE [handle |-> g_db[r], conns |-> conns]

GetDb(r) == GetSqliteDb(r)

\* a close_connection that leaves the handle open
CloseConnectionLeak(r) == conns

\* the connections left open once close_connection has run in context r
CloseConnection(r) ==
  IF g_db[r] # 0 THEN conns \ {<<r, g_db[r]>>} ELSE conns

\* ----------------------------------------------------------------- SQLite
\* a schema step that recreates the table
CreateTableDropFirst(exists, rs) == EmptyRows

\* CREATE TABLE IF NOT EXISTS workouts: the rows of the table afterwards
CreateTableIfNotExists(exists, rs) == IF exists THEN rs ELSE EmptyRows

\* a rowid without AUTOINCREMENT: one more than the largest stored id
NextRowidNoAutoincrement(rs, sq) ==
  IF DOMAIN rs = {} THEN 1
  ELSE (CHOOSE m \in DOMAIN rs : \A i \in DOMAIN rs : i <= m) + 1

\* id INTEGER PRIMARY KEY AUTOINCREMENT: the id of the next inserted row
NextRowid(rs, sq) == sq + 1

\* a column without NOT NULL: None is stored as the empty text
BindDateTextNullable(val) ==
  IF val.t = "str" THEN [ok |-> TRUE, error |-> "", text |-> val.v]
  ELSE IF val.t = "num" THEN [ok |-> TRUE, error |-> "", text |-> IntToText(val.v[1])]
  ELSE IF val.t = "null" THEN [ok |-> TRUE, error |-> "", text |-> <<>>]
  ELSE [ok |-> FALSE, error |-> "ProgrammingError", text |-> <<>>]

\* a value bound to date_text TEXT NOT NULL: text stays, a number is stored as
\* its decimal text, None violates NOT NULL, a list cannot be bound
BindDateText(val) ==
  IF val.t = "str" THEN [ok |-> TRUE, error |-> "", text |-> val.v]
  ELSE IF val.t = "num" THEN [ok |-> TRUE, error |-> "", text |-> IntToText(val.v[1])]
  ELSE IF val.t = "null" THEN [ok |-> FALSE, error |-> "IntegrityError", text |-> <<>>]
  ELSE [ok |-> FALSE, error |-> "ProgrammingError", text |-> <<>>]

\* ORDER BY date_text ASC
DateTextAsc(a, b) == StrLess(a, b)

\* ORDER BY date_text DESC: a before b
DateTextDesc(a, b) == StrLess(b, a)

RECURSIVE OrderByDateTextDesc(_, _)
\* every order the SELECT may return the ids S of rs in (ties in any order)
OrderByDateTextDesc(rs, S) ==
  IF S = {} THEN {<<>>}
  ELSE UNION {{<<x>> \o rest : rest \in OrderByDateTextDesc(rs, S \ {x})} :
              x \in {y \in S : \A z \in S : ~DateTextDesc(rs[z].date_text, rs[y].date_text)}}

\* ---------------------------------------------------------------- handlers
\* a save that takes any JSON value
HasGetAny(wd) == TRUE

\* workout_data.get(...) raises AttributeError unless workout_data is a dict
HasGet(wd) == wd.t = "obj"

\* json.loads(row['workout_json']) succeeds and ** accepts the result
RowLoads(row) == LET wd == Loads(row.workout_json) IN wd.ok /\ wd.t = "obj"

\* {'id': row['id'], 'date': row['date_text'], **workout_data}
MergeRow(id, row) ==
  DictUpdate(<<Pair(K_id, Num(id)), Pair(K_date, Str(row.date_text))>>,
             Loads(row.workout_json).d)

\* all_workouts for the rows in the order ids; row, date_text and body record
\* where each object came from
AllWorkouts(rs, ids) ==
  [i \in 1..Len(ids) |->
     [row |-> ids[i], date_text |-> rs[ids[i]].date_text, body |-> rs[ids[i]].body,
      obj |-> MergeRow(ids[i], rs[ids[i]])]]

\* simple_init_db, run when a worker process imports the module
SimpleInitDb(r) ==
  /\ r \in Active /\ pc[r] = "idle"
  /\ LET db == GetDb(r) IN
       /\ g_db' = [g_db EXCEPT ![r] = db.handle]
       /\ conns' = db.conns
  /\ rows' = CreateTableIfNotExists(schema, rows)
  /\ schema' = TRUE
  /\ op' = [op EXCEPT ![r] = "init"]
  /\ pc' = [pc EXCEPT ![r] = "done"]
  /\ resp' = [resp EXCEPT ![r] = Ok(0, <<>>)]
  /\ UNCHANGED <<scope, seq, lock, txn, issued>>

\* index: renders the page, touches no database
Index(r) ==
  /\ r \in Active /\ pc[r] = "idle" /\ schema
  /\ op' = [op EXCEPT ![r] = "index"]
  /\ pc' = [pc EXCEPT ![r] = "done"]
  /\ resp' = [resp EXCEPT ![r] = Ok(0, <<>>)]
  /\ UNCHANGED <<scope, schema, rows, seq, lock, conns, g_db, txn, issued>>

\* load_workouts
LoadWorkouts(r) ==
  /\ r \in Active /\ pc[r] = "idle" /\ schema
  /\ LET db == GetDb(r) IN
       /\ g_db' = [g_db EXCEPT ![r] = db.handle]
       /\ conns' = db.conns
  /\ IF \E id \in DOMAIN rows : ~RowLoads(rows[id])
     THEN resp' = [resp EXCEPT ![r] = Failed("JSONDecodeError")]
     ELSE \E ids \in OrderByDateTextDesc(rows, DOMAIN rows) :
            resp' = [resp EXCEPT ![r] = Ok(0, AllWorkouts(rows, ids))]
  /\ op' = [op EXCEPT ![r] = "load"]
  /\ pc' = [pc EXCEPT ![r] = "done"]
  /\ UNCHANGED <<scope, schema, rows, seq, lock, txn, issued>>

\* save_workout, lines 103-116: parse the body, open the connection, run the
\* INSERT inside the connection's implicit transaction
SaveWorkoutExecute(r) ==
  /\ r \in Active /\ pc[r] = "idle" /\ schema
  /\ \E body \in Bodies(scope) :
       LET wd == Loads(body) IN
       /\ op' = [op EXCEPT ![r] = "save"]
       /\ IF ~wd.ok \/ ~HasGet(wd)
          THEN \* get_json rejects the body, or .get raises
               /\ pc' = [pc EXCEPT ![r] = "done"]
               /\ resp' = [resp EXCEPT ![r] =
                             Failed(IF wd.ok THEN "AttributeError" ELSE "BadRequest")]
               /\ UNCHANGED <<lock, conns, g_db, txn>>
          ELSE LET date_text == DictGet(wd.d, K_date, Str(EmptyStr))
                   workout_json == Dumps(wd)
                   db == GetDb(r)
                   b == BindDateText(date_text)
               IN
               /\ g_db' = [g_db EXCEPT ![r] = db.handle]
               /\ conns' = db.conns
               /\ IF lock \notin {0, r}
                  THEN \* database is locked
                       /\ pc' = [pc EXCEPT ![r] = "done"]
                       /\ resp' = [resp EXCEPT ![r] = Failed("OperationalError")]
                       /\ UNCHANGED <<lock, txn>>
                  ELSE IF ~b.ok
                  THEN \* the statement fails; a NOT NULL failure leaves the
                       \* transaction open with the write lock taken
                       /\ pc' = [pc EXCEPT ![r] = "done"]
                       /\ resp' = [resp EXCEPT ![r] = Failed(b.error)]
                       /\ lock' = IF b.error = "IntegrityError" THEN r ELSE lock
                       /\ UNCHANGED txn
                  ELSE /\ seq < MaxIdOf(scope)
                       /\ pc' = [pc EXCEPT ![r] = "commit"]
                       /\ txn' = [txn EXCEPT ![r] =
                                    [k |-> "ins", id |-> NextRowid(rows, seq),
                                     date_text |-> b.text, workout_json |-> workout_json,
                                     body |-> body]]
                       /\ lock' = r
                       /\ UNCHANGED resp
  /\ UNCHANGED <<scope, schema, rows, seq, issued>>

\* save_workout, lines 117-122: commit, then answer with cursor.lastrowid
SaveWorkoutCommit(r) ==
  /\ pc[r] = "commit" /\ op[r] = "save"
  /\ rows' = RowsPut(rows, txn[r].id,
                     [date_text |-> txn[r].date_text, workout_json |-> txn[r].workout_json,
                      body |-> txn[r].body])
  /\ seq' = IF txn[r].id > seq THEN txn[r].id ELSE seq
  /\ lock' = 0
  /\ resp' = [resp EXCEPT ![r] = Ok(txn[r].id, <<>>)]
  /\ issued' = Append(issued, [id |-> txn[r].id, live |-> DOMAIN rows])
  /\ txn' = [txn EXCEPT ![r] = NoTxn]
  /\ pc' = [pc EXCEPT ![r] = "done"]
  /\ UNCHANGED <<scope, schema, conns, g_db, op>>

\* delete_workout, lines 129-130: open the connection, run the DELETE
DeleteWorkoutExecute(r) ==
  /\ r \in Active /\ pc[r] = "idle" /\ schema
  /\ \E workout_id \in PathIds(scope) :
       LET db == GetDb(r) IN
       /\ op' = [op EXCEPT ![r] = "delete"]
       /\ g_db' = [g_db EXCEPT ![r] = db.handle]
       /\ conns' = db.conns
       /\ IF workout_id > SqliteIntMax(scope) \/ lock \notin {0, r}
          THEN \* the id cannot be bound, or the database is locked
               /\ pc' = [pc EXCEPT ![r] = "done"]
               /\ resp' = [resp EXCEPT ![r] =
                             Failed(IF workout_id > SqliteIntMax(scope)
                                    THEN "OverflowError" ELSE "OperationalError")]
               /\ UNCHANGED <<lock, txn>>
          ELSE /\ pc' = [pc EXCEPT ![r] = "commit"]
               /\ txn' = [txn EXCEPT ![r] = [NoTxn EXCEPT !.k = "del", !.id = workout_id]]
               /\ lock' = r
               /\ UNCHANGED resp
  /\ UNCHANGED <<scope, schema, rows, seq, issued>>

\* delete_workout, lines 131-133: commit and answer
DeleteWorkoutCommit(r) ==
  /\ pc[r] = "commit" /\ op[r] = "delete"
  /\ rows' = RowsDel(rows, txn[r].id)
  /\ lock' = 0
  /\ resp' = [resp EXCEPT ![r] = Ok(0, <<>>)]
  /\ txn' = [txn EXCEPT ![r] = NoTxn]
  /\ pc' = [pc EXCEPT ![r] = "done"]
  /\ UNCHANGED <<scope, schema, seq, conns, g_db, op, issued>>

\* the end of the request: teardown_appcontext runs close_connection, which
\* rolls back whatever the connection left uncommitted; then g is dropped
Teardown(r) ==
  /\ pc[r] = "done"
  /\ conns' = CloseConnection(r)
  /\ lock' = IF lock = r THEN 0 ELSE lock
  /\ g_db' = [g_db EXCEPT ![r] = 0]
  /\ txn' = [txn EXCEPT ![r] = NoTxn]
  /\ op' = [op EXCEPT ![r] = "none"]
  /\ pc' = [pc EXCEPT ![r] = "idle"]
  /\ resp' = [resp EXCEPT ![r] = NoResp]
  /\ UNCHANGED <<scope, schema, rows, seq, issued>>

InitState ==
  /\ schema = FALSE
  /\ rows = EmptyRows
  /\ seq = 0
  /\ lock = 0
  /\ conns = {}
  /\ g_db = [r \in Reqs |-> 0]
  /\ op = [r \in Reqs |-> "none"]
  /\ pc = [r \in Reqs |-> "idle"]
  /\ txn = [r \in Reqs |-> NoTxn]
  /\ resp = [r \in Reqs |-> NoResp]
  /\ issued = <<>>

Init == scope = "full" /\ InitState
InitOrder == scope = "order" /\ InitState
InitConc == scope = "conc" /\ InitState

Next ==
  \E r \in Reqs :
    \/ SimpleInitDb(r)
    \/ Index(r)
    \/ LoadWorkouts(r)
    \/ SaveWorkoutExecute(r)
    \/ SaveWorkoutCommit(r)
    \/ DeleteWorkoutExecute(r)
    \/ DeleteWorkoutCommit(r)
    \/ Teardown(r)

Spec == Init /\ [][Next]_vars
SpecOrder == InitOrder /\ [][Next]_vars
SpecConc == InitConc /\ [][Next]_vars

\* ------------------------------------------------------------ properties
\* context r holds the answer of a load_workouts that returned a list
DoneLoad(r) == op[r] = "load" /\ pc[r] = "done" /\ resp[r].status = "ok"
\* the step is r's commit of a save / of a delete
SaveCommits(r) == op[r] = "save" /\ pc[r] = "commit" /\ pc'[r] = "done"
DeleteCommits(r) == op[r] = "delete" /\ pc[r] = "commit" /\ pc'[r] = "done"
\* the 'id' / 'date' field of a returned object
IdOf(obj) == DictGet(obj, K_id, Null)
DateOf(obj) == DictGet(obj, K_date, Null)
\* the client's payload, as the client's body says it
Payload(body) == Loads(body).d
OtherKeys(d) == DictKeys(d) \ {K_id, K_date}
\* every list load_workouts could return for the rows rs
Listings(rs) == {AllWorkouts(rs, ids) : ids \in OrderByDateTextDesc(rs, DOMAIN rs)}

\* C1: every object load_workouts returns carries the id the store assigned
\* to its row and the row's date_text, whatever id or date keys the payload
\* has, and the payload's value for every other key.
C1_StoredIdAndDateOverridePayload ==
  \A r \in Reqs : DoneLoad(r) =>
    \A i \in 1..Len(resp[r].list) :
      LET e == resp[r].list[i] IN
      /\ IdOf(e.obj) = Num(e.row)
      /\ DateOf(e.obj) = Str(e.date_text)
      /\ \A k \in OtherKeys(Payload(e.body)) :
           DictHas(e.obj, k) /\ DictGet(e.obj, k, Null) = DictGet(Payload(e.body), k, Null)

\* C2: a payload P with date string D (or no date key, D = "") that was saved
\* comes back in the list as exactly one record, with date D, with P's fields
\* other than id and date, and with P's own id key discarded in favour of the
\* store's id.
C2_SavedPayloadListedOnce ==
  \A r \in Reqs : DoneLoad(r) =>
    \A i \in 1..Len(resp[r].list) :
      LET e == resp[r].list[i]
          P == Payload(e.body)
          D == DictGet(P, K_date, Str(EmptyStr))
      IN D.t = "str" =>
           /\ Cardinality({j \in 1..Len(resp[r].list) : resp[r].list[j].row = e.row}) = 1
           /\ DateOf(e.obj) = D
           /\ OtherKeys(e.obj) = OtherKeys(P)
           /\ \A k \in OtherKeys(P) : DictGet(e.obj, k, Null) = DictGet(P, k, Null)
           /\ IdOf(e.obj) = Num(e.row)

\* C3: a delete of an id x that is stored answers success, removes row x and
\* no other row, and every list taken afterwards holds no record whose id is
\* x and holds every other record as it was.
C3_DeleteRemovesExactlyThatRecord ==
  [][\A r \in Reqs : (DeleteCommits(r) /\ txn[r].id \in DOMAIN rows) =>
       LET x == txn[r].id IN
       /\ resp'[r] = Ok(0, <<>>)
       /\ DOMAIN rows' = DOMAIN rows \ {x}
       /\ \A y \in DOMAIN rows' : rows'[y] = rows[y]
       /\ \A L \in Listings(rows') :
            /\ \A i \in 1..Len(L) : IdOf(L[i].obj) # Num(x)
            /\ \A y \in DOMAIN rows \ {x} :
                 \E i \in 1..Len(L) : L[i].row = y /\ L[i].obj = MergeRow(y, rows[y])
    ]_vars

\* C4: a delete of an id that is not stored raises no error (short of the
\* database being locked by another connection), answers success and leaves
\* the rows as they are.
C4_DeleteMissingIdSucceeds ==
  [][\A r \in Reqs :
       /\ (pc[r] = "idle" /\ op'[r] = "delete") =>
            /\ rows' = rows
            /\ resp'[r].status = "fail" => lock \notin {0, r}
       /\ (DeleteCommits(r) /\ txn[r].id \notin DOMAIN rows) =>
            /\ resp'[r] = Ok(0, <<>>)
            /\ rows' = rows
    ]_vars

\* C5: the ids save_workout returns are strictly increasing in the order the
\* saves commit, so no id is returned twice or handed out again after its
\* row is deleted; stored ids never exceed the sequence.
C5_IdsUniqueAndIncreasing ==
  /\ \A i, j \in 1..Len(issued) : i < j => issued[i].id < issued[j].id
  /\ \A id \in DOMAIN rows : 1 <= id /\ id <= seq
  /\ \A r \in Reqs : txn[r].k = "ins" =>
       /\ txn[r].id \notin DOMAIN rows
       /\ \A i \in 1..Len(issued) : issued[i].id < txn[r].id
  /\ \A r \in Reqs : (op[r] = "save" /\ resp[r].status = "ok") =>
       \E i \in 1..Len(issued) : issued[i].id = resp[r].id

\* an id was handed out while the store was empty again: every earlier row,
\* the one with the largest id included, had been deleted
C5_Witness ==
  /\ Len(issued) >= 2
  /\ issued[Len(issued)].live = {}
  /\ \E r \in Reqs : op[r] = "save" /\ resp[r].status = "ok" /\ resp[r].id = issued[Len(issued)].id

\* C6: load_workouts returns every stored row exactly once, in descending
\* string order of the date: "2024-1-9" before "2024-01-10" before
\* "2024-01-02" before "2024-01-01".
C6_ListOrderedByDateTextDesc ==
  \A r \in Reqs : DoneLoad(r) =>
    LET L == resp[r].list
        pos(d) == {i \in 1..Len(L) : DateOf(L[i].obj) = Str(d)}
        before(a, b) == \A i \in pos(a), j \in pos(b) : i < j
    IN
    /\ Len(L) = Cardinality(DOMAIN rows)
    /\ {L[i].row : i \in 1..Len(L)} = DOMAIN rows
    /\ \A i \in 1..Len(L) : DateOf(L[i].obj) = Str(rows[L[i].row].date_text)
    /\ \A i, j \in 1..Len(L) : i < j => ~StrLess(DateOf(L[i].obj).v, DateOf(L[j].obj).v)
    /\ before(D_19, D_0110) /\ before(D_19, D_0102) /\ before(D_19, D_0101)
    /\ before(D_0110, D_0102) /\ before(D_0110, D_0101) /\ before(D_0102, D_0101)

\* the four dates of the scenario, listed
C6_Witness ==
  \E r \in Reqs :
    /\ DoneLoad(r)
    /\ [i \in 1..Len(resp[r].list) |-> DateOf(resp[r].list[i].obj)]
         = <<Str(D_19), Str(D_0110), Str(D_0102), Str(D_0101)>>

\* C7: a context holds at most one open connection, the one g names; a
\* further get_db returns that handle and opens nothing; a context that
\* never called get_db has none; and once the context has ended, after a
\* success or a failure, none of its connections is open.
C7_OneConnectionPerRequestClosedAtEnd ==
  \A r \in Reqs :
    LET mine == {c \in conns : c[1] = r} IN
    /\ Cardinality(mine) <= 1
    /\ g_db[r] # 0 => /\ mine = {<<r, g_db[r]>>}
                      /\ GetSqliteDb(r) = [handle |-> g_db[r], conns |-> conns]
    /\ g_db[r] = 0 => mine = {}
    /\ (op[r] = "index" \/ resp[r].error \in {"BadRequest", "AttributeError"}) => mine = {}
    /\ pc[r] = "idle" => mine = {} /\ g_db[r] = 0

\* requests that opened connections have all ended, one of them after its
\* handler raised with the connection open
C7_Witness ==
  /\ rows # EmptyRows
  /\ \E r \in Reqs : pc[r] = "idle"
  /\ \E r \in Reqs : pc[r] = "done" /\ resp[r].error = "IntegrityError" /\ g_db[r] # 0
  /\ Cardinality(conns) = 1

\* C8: a save that fails inserts nothing and assigns no id: the step that
\* runs the INSERT never touches the committed rows, a failing one leaves no
\* pending write, a body that is malformed, is no JSON object or carries a
\* null date never gets as far as a pending write, the failed request ends
\* without changing the store, and the store changes only in the commit of
\* a request that answers success.
C8_FailedSaveLeavesStoreUnchanged ==
  [][/\ \A r \in Reqs :
          /\ (pc[r] = "idle" /\ op'[r] = "save") =>
               /\ rows' = rows /\ seq' = seq /\ issued' = issued
               /\ resp'[r].status = "fail" => (txn'[r] = NoTxn /\ pc'[r] = "done")
               /\ pc'[r] = "commit" =>
                    /\ txn'[r].body \notin MalformedBodies \cup NonObjectBodies \cup {B_nulldate}
                    /\ Loads(txn'[r].body).t = "obj"
                    /\ DictGet(Payload(txn'[r].body), K_date, Str(EmptyStr)).t # "null"
          /\ (op[r] = "save" /\ resp[r].status = "fail" /\ pc'[r] # pc[r]) =>
               /\ pc'[r] = "idle"
               /\ rows' = rows /\ seq' = seq /\ issued' = issued
     /\ (rows' # rows \/ seq' # seq) =>
          \E r \in Reqs : (SaveCommits(r) \/ DeleteCommits(r)) /\ resp'[r].status = "ok"
    ]_vars

\* with rows stored, one save has failed on a null date and another on a
\* body that is no object
C8_Witness ==
  /\ rows # EmptyRows
  /\ \E r \in Reqs : op[r] = "save" /\ resp[r].error = "IntegrityError"
  /\ \E r \in Reqs : op[r] = "save" /\ resp[r].error = "AttributeError"

\* C9: a stored row never changes; a row appears only in the commit of a
\* save, which adds that one row with the values the save computed; a row
\* disappears only in the commit of a delete of its id; load_workouts, index
\* and the schema initializer leave the rows as they are.
C9_RowsCreatedBySaveDestroyedByDelete ==
  [][/\ \A id \in DOMAIN rows \cap DOMAIN rows' : rows'[id] = rows[id]
     /\ \A id \in DOMAIN rows' \ DOMAIN rows :
          \E r \in Reqs :
            /\ SaveCommits(r) /\ txn[r].id = id
            /\ rows'[id].date_text = txn[r].date_text
            /\ rows'[id].workout_json = txn[r].workout_json
     /\ \A id \in DOMAIN rows \ DOMAIN rows' :
          \E r \in Reqs : DeleteCommits(r) /\ txn[r].id = id
     /\ \A r \in Reqs : SaveCommits(r) =>
          /\ DOMAIN rows \subseteq DOMAIN rows'
          /\ Cardinality(DOMAIN rows') = Cardinality(DOMAIN rows) + 1
     /\ \A r \in Reqs : DeleteCommits(r) => DOMAIN rows' = DOMAIN rows \ {txn[r].id}
     /\ \A r \in Reqs : (pc[r] = "idle" /\ op'[r] \in {"load", "index", "init"}) => rows' = rows
    ]_vars

\* the schema initializer has run again over a table that holds a row, after
\* another row was created and destroyed
C9_Witness ==
  /\ \E r \in Reqs : op[r] = "init" /\ pc[r] = "done"
  /\ Cardinality(DOMAIN rows) = 1
  /\ seq = 2

\* C10: every stored workout_json (and every one waiting for its commit) is
\* the text of a JSON object, and no load_workouts ends in a failure.
C10_StoredJsonAlwaysLoads ==
  /\ \A id \in DOMAIN rows : RowLoads(rows[id])
  /\ \A r \in Reqs : txn[r].k = "ins" => RowLoads(txn[r])
  /\ \A r \in Reqs : (op[r] = "load" /\ pc[r] = "done") => resp[r].status = "ok"

\* a load has listed two saved rows while a save of a non-object was refused
C10_Witness ==
  /\ \E r \in Reqs : DoneLoad(r) /\ Len(resp[r].list) = 2
  /\ \E r \in Reqs : op[r] = "save" /\ resp[r].error = "AttributeError"
  /\ Cardinality(DOMAIN rows) = 2

====
